---- MODULE Spec2Model ----
(***************************************************************************)
(* Model of pytorch_lightning/accelerators/tpu.py: TPUAccelerator.         *)
(*                                                                         *)
(* The adapter holds three references (precision plugin, training type     *)
(* plugin, attached LightningModule) and exposes setup, run_optimizer_step *)
(* and clip_gradients.  Every handler is a pure operator returning the     *)
(* ways one call can end (its result, the calls it made to collaborators,  *)
(* the tensors afterwards); the actions apply one of them to the state.    *)
(*                                                                         *)
(* Numbers (clip_val, max_norm, norm_type, gradient norms) are rationals   *)
(* with denominator 2 (halves), tagged with their Python type.             *)
(***************************************************************************)
EXTENDS Integers, Sequences, FiniteSets, TLC

(* ---------------------------- bounds ----------------------------------- *)
MaxCalls == 2
MaxNegClipNum == 1
MaxClipNum == 2
MaxGradNum == 3

(* ---------------------------- values ----------------------------------- *)
None == "None"
Models == {"model_a", "model_b"}
Trainers == {"trainer"}
Optimizers == {"opt_a", "opt_b"}
OptimizerIdx == {0}
Closures == {"closure_1", "closure_2"}
KwargKeys == {"closure", "on_tpu"}
KwargVals == {"kw_val"}
Kwargs == UNION {[D -> KwargVals] : D \in SUBSET KwargKeys}

\* the optimizer of each model (an optimizer holds its own model's parameters)
OptimizerModel(optimizer) == IF optimizer = "opt_a" THEN "model_a" ELSE "model_b"

PrecisionPlugins ==
    {"TPUHalfPrecisionPlugin", "MixedPrecisionPlugin", "NativeMixedPrecisionPlugin"}
TrainingTypePlugins ==
    {"SingleTPUPlugin", "TPUSpawnPlugin", "DDPPlugin"}

\* the classes an object of class cls is an instance of
Mro(cls) ==
    CASE cls = "PrecisionPlugin" -> {"PrecisionPlugin"}
      [] cls = "TPUHalfPrecisionPlugin" -> {"TPUHalfPrecisionPlugin", "PrecisionPlugin"}
      [] cls = "MixedPrecisionPlugin" -> {"MixedPrecisionPlugin", "PrecisionPlugin"}
      [] cls = "NativeMixedPrecisionPlugin" ->
            {"NativeMixedPrecisionPlugin", "MixedPrecisionPlugin", "PrecisionPlugin"}
      [] cls = "SingleDevicePlugin" -> {"SingleDevicePlugin", "TrainingTypePlugin"}
      [] cls = "SingleTPUPlugin" -> {"SingleTPUPlugin", "SingleDevicePlugin", "TrainingTypePlugin"}
      [] cls = "DDPPlugin" -> {"DDPPlugin", "ParallelPlugin", "TrainingTypePlugin"}
      [] cls = "TPUSpawnPlugin" ->
            {"TPUSpawnPlugin", "DDPSpawnPlugin", "ParallelPlugin", "TrainingTypePlugin"}

isinstance(cls, classes) == Mro(cls) \cap classes # {}

GradClipAlgorithmType == {"NORM", "VALUE"}

\* Union[int, float] in halves: an int has an even numerator
ClipVals ==
    {[type |-> "int", num |-> n] : n \in {k \in -MaxNegClipNum..MaxClipNum : k % 2 = 0}}
    \cup {[type |-> "float", num |-> n] : n \in -MaxNegClipNum..MaxClipNum}
NoNumber == [type |-> "None", num |-> 0]

\* float(x): the value as a Python float
float(x) == [type |-> "float", num |-> x.num]
\* x <= 0 and x > 0 on Python numbers
LeqZero(x) == x.num <= 0
GtZero(x) == x.num > 0

\* norm_type: float = 2.0
DefaultNormType == [type |-> "float", num |-> 4]

\* the gradient norms a closure may leave behind: vanished, or the largest
GradVals == {0, MaxGradNum}

(* --------------------------- results ----------------------------------- *)
Return == [type |-> "return", msg |-> "None"]
AmpError ==
    [type |-> "MisconfigurationException",
     msg |-> "amp + tpu is not supported. Only bfloats are supported on TPU. Consider using TPUHalfPrecisionPlugin"]
StrategyError ==
    [type |-> "MisconfigurationException",
     msg |-> "TPUs only support a single tpu core or tpu spawn training."]
NotImplemented == [type |-> "NotImplementedError", msg |-> ""]
\* None.parameters()
AttributeError == [type |-> "AttributeError", msg |-> "'NoneType' object has no attribute 'parameters'"]
\* the lookup of a module-level name the guarded import did not bind
NameError(name) == [type |-> "NameError", msg |-> name]
\* what the native runtime may raise
NativeErrors == {[type |-> "RuntimeError", msg |-> "xla"], [type |-> "ValueError", msg |-> "xla"]}
NativeOutcomes == {Return} \cup NativeErrors

Raised(r) == r.type # "return"

(* ---------------------------- state ------------------------------------ *)
VARIABLES
    _XLA_AVAILABLE,         \* whether torch_xla was importable when the module was loaded
    precision_plugin,       \* self.precision_plugin: class of the precision plugin
    training_type_plugin,   \* self.training_type_plugin: class of the training type plugin
    lightning_module,       \* self.lightning_module: the attached model, or None
    tensors,                \* per model: the norm of its parameters' gradients (grad)
    last,                   \* the last call made on the adapter, with what it did
    ncalls,                 \* calls made on the adapter
    n_norm_pos,             \* clip_gradients calls with NORM and clip_val > 0
    n_norm_pos_ready,       \* ... of which made with a model attached and torch_xla bound
    n_xla_clip              \* invocations of xla_clip_grad_norm_

vars == <<_XLA_AVAILABLE, precision_plugin, training_type_plugin, lightning_module, tensors, last,
          ncalls, n_norm_pos, n_norm_pos_ready, n_xla_clip>>

Self == [precision_plugin |-> precision_plugin,
         training_type_plugin |-> training_type_plugin,
         lightning_module |-> lightning_module]

EmptyKwargs == [k \in {} |-> "kw_val"]

\* model.parameters(): the parameters of the given model
Parameters(model) == [module |-> model, names |-> {"weight", "bias"}]

(* ------------------------ collaborators -------------------------------- *)
(* A call is described by the set of ways it can end.  Each of them is a   *)
(* record: the result, the adapter's references and the tensors            *)
(* afterwards, and the calls made to the collaborators.                    *)

\* a call that ends with result r without touching any collaborator
Ends(self, ts, r) ==
    {[result |-> r, self |-> self, tensors |-> ts,
      base_setup |-> <<>>, xm_step |-> <<>>, xla_clip |-> <<>>]}

\* super().setup(trainer, model): the base accelerator's setup
Accelerator_setup(self, trainer, model, ts) ==
    {[result |-> Return, self |-> self, tensors |-> ts,
      base_setup |-> <<[trainer |-> trainer, model |-> model]>>,
      xm_step |-> <<>>, xla_clip |-> <<>>]}

\* xm.optimizer_step(optimizer, barrier, optimizer_args): xm is bound only
\* if _XLA_AVAILABLE, else looking it up raises NameError.  The primitive runs
\* optimizer.step(**optimizer_args); the closure recomputes the gradients
\* of the optimizer's parameters (to some norm g), unless it raises.
xm_optimizer_step(self, optimizer, barrier, args, ts) ==
    LET invocation(outcome) ==
            <<[optimizer |-> optimizer, barrier |-> barrier,
               optimizer_args |-> args, outcome |-> outcome]>>
    IN IF ~_XLA_AVAILABLE THEN Ends(self, ts, NameError("name 'xm' is not defined")) ELSE
       {[result |-> Return, self |-> self,
         tensors |-> [ts EXCEPT ![OptimizerModel(optimizer)] = [grad |-> g]],
         base_setup |-> <<>>, xm_step |-> invocation(Return), xla_clip |-> <<>>]
            : g \in GradVals}
       \cup
       {[result |-> err, self |-> self, tensors |-> ts,
         base_setup |-> <<>>, xm_step |-> invocation(err), xla_clip |-> <<>>]
            : err \in NativeErrors}

\* xla_clip_grad_norm_(parameters, max_norm, norm_type): the name is bound
\* only if _XLA_AVAILABLE, else looking it up raises NameError.  The primitive
\* scales the gradients of the parameters in place so that their norm is at
\* most max_norm, unless it raises.
xla_clip_grad_norm_(self, parameters, max_norm, norm_type, ts) ==
    IF ~_XLA_AVAILABLE
    THEN Ends(self, ts, NameError("name 'xla_clip_grad_norm_' is not defined"))
    ELSE
    {[result |-> outcome, self |-> self,
      tensors |-> IF outcome = Return
                  THEN [ts EXCEPT ![parameters.module] =
                           [grad |-> IF @.grad > max_norm.num THEN max_norm.num ELSE @.grad]]
                  ELSE ts,
      base_setup |-> <<>>, xm_step |-> <<>>,
      xla_clip |-> <<[parameters |-> parameters, max_norm |-> max_norm,
                      norm_type |-> norm_type, outcome |-> outcome]>>]
        : outcome \in NativeOutcomes}

(* --------------------------- TPUAccelerator ---------------------------- *)
\* variants of setup used to test the properties below
setup_no_precision_check(self, trainer, model, ts) ==
    IF ~isinstance(self.training_type_plugin, {"SingleTPUPlugin", "TPUSpawnPlugin"})
    THEN Ends(self, ts, StrategyError)
    ELSE Accelerator_setup(self, trainer, model, ts)

setup_no_strategy_check(self, trainer, model, ts) ==
    IF isinstance(self.precision_plugin, {"MixedPrecisionPlugin"})
    THEN Ends(self, ts, AmpError)
    ELSE Accelerator_setup(self, trainer, model, ts)

setup_base_first(self, trainer, model, ts) ==
    LET base == Accelerator_setup(self, trainer, model, ts) IN
    IF isinstance(self.precision_plugin, {"MixedPrecisionPlugin"})
    THEN {[e EXCEPT !.result = AmpError] : e \in base}
    ELSE IF ~isinstance(self.training_type_plugin, {"SingleTPUPlugin", "TPUSpawnPlugin"})
    THEN {[e EXCEPT !.result = StrategyError] : e \in base}
    ELSE base

setup_strategy_first(self, trainer, model, ts) ==
    IF ~isinstance(self.training_type_plugin, {"SingleTPUPlugin", "TPUSpawnPlugin"})
    THEN Ends(self, ts, StrategyError)
    ELSE IF isinstance(self.precision_plugin, {"MixedPrecisionPlugin"})
    THEN Ends(self, ts, AmpError)
    ELSE Accelerator_setup(self, trainer, model, ts)

setup(self, trainer, model, ts) ==
    IF isinstance(self.precision_plugin, {"MixedPrecisionPlugin"})
    THEN Ends(self, ts, AmpError)
    ELSE IF ~isinstance(self.training_type_plugin, {"SingleTPUPlugin", "TPUSpawnPlugin"})
    THEN Ends(self, ts, StrategyError)
    ELSE Accelerator_setup(self, trainer, model, ts)

\* {'closure': lambda_closure, **kwargs}
optimizer_args(lambda_closure, kwargs) ==
    [k \in {"closure"} \cup DOMAIN kwargs |->
        IF k \in DOMAIN kwargs THEN kwargs[k] ELSE lambda_closure]

\* variants of run_optimizer_step used to test the properties below
run_optimizer_step_barrier(self, optimizer, optimizer_idx, lambda_closure, kwargs, ts) ==
    xm_optimizer_step(self, optimizer, TRUE, optimizer_args(lambda_closure, kwargs), ts)

run_optimizer_step_catch(self, optimizer, optimizer_idx, lambda_closure, kwargs, ts) ==
    {IF Raised(e.result) THEN [e EXCEPT !.result = Return] ELSE e :
        e \in xm_optimizer_step(self, optimizer, FALSE,
                                optimizer_args(lambda_closure, kwargs), ts)}

run_optimizer_step(self, optimizer, optimizer_idx, lambda_closure, kwargs, ts) ==
    xm_optimizer_step(self, optimizer, FALSE, optimizer_args(lambda_closure, kwargs), ts)

\* variants of _clip_gradients_norm used to test the properties below
_clip_gradients_norm_lt(self, clip_val, norm_type, ts) ==
    LET model == self.lightning_module IN
    IF model = None
    THEN Ends(self, ts, AttributeError)
    ELSE LET parameters == Parameters(model)
             grad_clip_val == float(clip_val)
         IN IF grad_clip_val.num < 0
            THEN Ends(self, ts, Return)
            ELSE LET max_norm == grad_clip_val
                 IN xla_clip_grad_norm_(self, parameters, max_norm, norm_type, ts)

_clip_gradients_norm_swapped(self, clip_val, norm_type, ts) ==
    LET model == self.lightning_module IN
    IF model = None
    THEN Ends(self, ts, AttributeError)
    ELSE LET parameters == Parameters(model)
             grad_clip_val == float(clip_val)
         IN IF LeqZero(grad_clip_val)
            THEN Ends(self, ts, Return)
            ELSE LET max_norm == grad_clip_val
                 IN xla_clip_grad_norm_(self, parameters, norm_type, max_norm, ts)

_clip_gradients_norm(self, clip_val, norm_type, ts) ==
    LET model == self.lightning_module IN
    IF model = None
    THEN Ends(self, ts, AttributeError)
    ELSE LET parameters == Parameters(model)
             grad_clip_val == float(clip_val)
         IN IF LeqZero(grad_clip_val)
            THEN Ends(self, ts, Return)
            ELSE LET max_norm == grad_clip_val
                 IN xla_clip_grad_norm_(self, parameters, max_norm, norm_type, ts)

\* variants of clip_gradients used to test the properties below
clip_gradients_always_norm(self, optimizer, clip_val, gradient_clip_algorithm, ts) ==
    _clip_gradients_norm(self, clip_val, DefaultNormType, ts)

clip_gradients_optimizer_params(self, optimizer, clip_val, gradient_clip_algorithm, ts) ==
    IF gradient_clip_algorithm = "NORM"
    THEN {[e EXCEPT !.self = self] :
            e \in _clip_gradients_norm([self EXCEPT !.lightning_module = OptimizerModel(optimizer)],
                                       clip_val, DefaultNormType, ts)}
    ELSE Ends(self, ts, NotImplemented)

clip_gradients(self, optimizer, clip_val, gradient_clip_algorithm, ts) ==
    IF gradient_clip_algorithm = "NORM"
    THEN _clip_gradients_norm(self, clip_val, DefaultNormType, ts)
    ELSE Ends(self, ts, NotImplemented)

(* ----------------------------- actions --------------------------------- *)
NoCall ==
    [op |-> "none", result |-> Return,
     before |-> [self |-> Self, tensors |-> tensors],
     after |-> [self |-> Self, tensors |-> tensors],
     trainer |-> None, model |-> None, optimizer |-> None, optimizer_idx |-> 0,
     lambda_closure |-> None, kwargs |-> EmptyKwargs,
     clip_val |-> NoNumber, algorithm |-> None,
     base_setup |-> <<>>, xm_step |-> <<>>, xla_clip |-> <<>>]

\* one call, described by the record call, ends in one of the ways in ends
Apply(call, ends) ==
    /\ ncalls < MaxCalls
    /\ ncalls' = ncalls + 1
    /\ UNCHANGED _XLA_AVAILABLE
    /\ \E e \in ends :
        /\ precision_plugin' = e.self.precision_plugin
        /\ training_type_plugin' = e.self.training_type_plugin
        /\ lightning_module' = e.self.lightning_module
        /\ tensors' = e.tensors
        /\ n_xla_clip' = n_xla_clip + Len(e.xla_clip)
        /\ last' = [call EXCEPT !.result = e.result,
                                !.after = [self |-> e.self, tensors |-> e.tensors],
                                !.base_setup = e.base_setup,
                                !.xm_step = e.xm_step, !.xla_clip = e.xla_clip]

Init ==
    /\ _XLA_AVAILABLE \in BOOLEAN
    /\ precision_plugin \in PrecisionPlugins
    /\ training_type_plugin \in TrainingTypePlugins
    /\ lightning_module = None
    /\ tensors = [m \in Models |-> [grad |-> MaxGradNum]]
    /\ last = NoCall
    /\ ncalls = 0
    /\ n_norm_pos = 0
    /\ n_norm_pos_ready = 0
    /\ n_xla_clip = 0

\* the framework attaches a model to the adapter
connect(model) ==
    /\ lightning_module # model
    /\ lightning_module' = model
    /\ UNCHANGED <<_XLA_AVAILABLE, precision_plugin, training_type_plugin, tensors, last, ncalls,
                   n_norm_pos, n_norm_pos_ready, n_xla_clip>>

Setup(trainer, model) ==
    /\ Apply([NoCall EXCEPT !.op = "setup", !.trainer = trainer, !.model = model],
             setup(Self, trainer, model, tensors))
    /\ UNCHANGED <<n_norm_pos, n_norm_pos_ready>>

RunOptimizerStep(optimizer, optimizer_idx, lambda_closure, kwargs) ==
    /\ Apply([NoCall EXCEPT !.op = "run_optimizer_step", !.optimizer = optimizer,
                            !.optimizer_idx = optimizer_idx,
                            !.lambda_closure = lambda_closure, !.kwargs = kwargs],
             run_optimizer_step(Self, optimizer, optimizer_idx, lambda_closure, kwargs,
                                tensors))
    /\ UNCHANGED <<n_norm_pos, n_norm_pos_ready>>

ClipGradients(optimizer, clip_val, gradient_clip_algorithm) ==
    /\ Apply([NoCall EXCEPT !.op = "clip_gradients", !.optimizer = optimizer,
                            !.clip_val = clip_val, !.algorithm = gradient_clip_algorithm],
             clip_gradients(Self, optimizer, clip_val, gradient_clip_algorithm, tensors))
    /\ LET pos == gradient_clip_algorithm = "NORM" /\ GtZero(clip_val)
       IN /\ n_norm_pos' = n_norm_pos + (IF pos THEN 1 ELSE 0)
          /\ n_norm_pos_ready' =
                n_norm_pos_ready + (IF pos /\ lightning_module # None /\ _XLA_AVAILABLE THEN 1 ELSE 0)

Next ==
    \/ \E model \in Models : connect(model)
    \/ \E trainer \in Trainers, model \in Models : Setup(trainer, model)
    \/ \E optimizer \in Optimizers, optimizer_idx \in OptimizerIdx,
          lambda_closure \in Closures, kwargs \in Kwargs :
            RunOptimizerStep(optimizer, optimizer_idx, lambda_closure, kwargs)
    \/ \E optimizer \in Optimizers, clip_val \in ClipVals,
          gradient_clip_algorithm \in GradClipAlgorithmType :
            ClipGradients(optimizer, clip_val, gradient_clip_algorithm)

Spec == Init /\ [][Next]_vars

(* --------------------------- properties -------------------------------- *)
\* the vocabulary of the properties, stated independently of the handlers
MixedPrecision == {"MixedPrecisionPlugin", "NativeMixedPrecisionPlugin"}
SupportedStrategies == {"SingleTPUPlugin", "TPUSpawnPlugin"}
IsSetup == last.op = "setup"
IsStep == last.op = "run_optimizer_step"
IsClip == last.op = "clip_gradients"
WasMixed == last.before.self.precision_plugin \in MixedPrecision
WasSupported == last.before.self.training_type_plugin \in SupportedStrategies
WasAttached == last.before.self.lightning_module # None
RaisedConfig == last.result.type = "MisconfigurationException"
TwoPointZero == [type |-> "float", num |-> 4]

\* C1 as stated: setup raises a MisconfigurationException if and only if the
\* precision plugin is the mixed-precision variant.
C1_AsStated == IsSetup => (RaisedConfig <=> WasMixed)

\* C1 (amended): with a training type plugin that is single-TPU or TPU-spawn,
\* setup raises a MisconfigurationException if and only if the precision
\* plugin is mixed precision; with a mixed-precision plugin it raises one
\* whatever the training type plugin.
C1_MixedPrecisionRaises ==
    IsSetup => /\ WasSupported => (RaisedConfig <=> WasMixed)
               /\ WasMixed => RaisedConfig

C1_Witness ==
    /\ IsSetup /\ WasSupported
    /\ last.before.self.precision_plugin = "NativeMixedPrecisionPlugin"
    /\ RaisedConfig

\* C2 as stated: setup raises a MisconfigurationException if and only if the
\* training type plugin is neither single-TPU nor TPU-spawn.
C2_AsStated == IsSetup => (RaisedConfig <=> ~WasSupported)

\* C2 (amended): with a precision plugin that is not mixed precision, setup
\* raises a MisconfigurationException if and only if the training type plugin
\* is neither single-TPU nor TPU-spawn; with such a training type plugin it
\* raises one whatever the precision plugin.
C2_UnsupportedStrategyRaises ==
    IsSetup => /\ ~WasMixed => (RaisedConfig <=> ~WasSupported)
               /\ ~WasSupported => RaisedConfig

C2_Witness ==
    /\ IsSetup /\ ~WasMixed /\ ~WasSupported
    /\ last.result = StrategyError

\* C3 as stated: in every adapter state, clip_gradients with NORM and
\* clip_val <= 0 returns normally, does not invoke xla_clip_grad_norm_ and
\* leaves the tensors unchanged.
C3_AsStated ==
    (IsClip /\ last.algorithm = "NORM" /\ last.clip_val.num <= 0)
        => /\ last.result = Return
           /\ last.xla_clip = <<>> /\ last.xm_step = <<>>
           /\ last.after.tensors = last.before.tensors

\* C3 (amended): in every adapter state with a model attached, clip_gradients
\* with NORM and clip_val <= 0 returns normally, does not invoke
\* xla_clip_grad_norm_ and leaves the tensors unchanged.
C3_NonPositiveIsNoOp ==
    (IsClip /\ last.algorithm = "NORM" /\ last.clip_val.num <= 0 /\ WasAttached)
        => /\ last.result = Return
           /\ last.xla_clip = <<>> /\ last.xm_step = <<>>
           /\ last.after.tensors = last.before.tensors

C3_Witness ==
    /\ IsClip /\ last.algorithm = "NORM" /\ last.clip_val.num = 0 /\ WasAttached
    /\ last.result = Return
    /\ \E m \in Models : last.after.tensors[m].grad > 0

\* C4 as stated: clip_gradients with NORM and clip_val > 0 invokes
\* xla_clip_grad_norm_ exactly once, with max_norm = clip_val and
\* norm_type = 2.0, and the invocations so far are as many as such calls.
C4_AsStated ==
    /\ (IsClip /\ last.algorithm = "NORM" /\ last.clip_val.num > 0)
          => /\ Len(last.xla_clip) = 1
             /\ last.xla_clip[1].max_norm.num = last.clip_val.num
             /\ last.xla_clip[1].norm_type = TwoPointZero
    /\ n_xla_clip = n_norm_pos

\* C4 (amended): with a model attached and torch_xla available,
\* clip_gradients with NORM and clip_val > 0 invokes xla_clip_grad_norm_
\* exactly once, with max_norm = clip_val (as a float) and norm_type = 2.0;
\* the invocations so far are as many as such calls made with a model
\* attached and torch_xla available.
C4_PositiveClipsOnce ==
    /\ (IsClip /\ last.algorithm = "NORM" /\ last.clip_val.num > 0 /\ WasAttached
            /\ _XLA_AVAILABLE)
          => /\ Len(last.xla_clip) = 1
             /\ last.xla_clip[1].max_norm.num = last.clip_val.num
             /\ last.xla_clip[1].max_norm.type = "float"
             /\ last.xla_clip[1].norm_type = TwoPointZero
    /\ n_xla_clip = n_norm_pos_ready

C4_Witness ==
    /\ IsClip /\ last.algorithm = "NORM" /\ WasAttached
    /\ last.clip_val = [type |-> "int", num |-> 2]
    /\ Len(last.xla_clip) = 1
    /\ n_xla_clip = 2

\* C5: clip_gradients with an algorithm other than NORM raises
\* NotImplementedError, does not invoke xla_clip_grad_norm_ and leaves the
\* tensors unchanged, whatever clip_val and whatever the adapter state.
C5_OtherAlgorithmNotImplemented ==
    (IsClip /\ last.algorithm # "NORM")
        => /\ last.result.type = "NotImplementedError"
           /\ last.xla_clip = <<>> /\ last.xm_step = <<>>
           /\ last.after.tensors = last.before.tensors

C5_Witness ==
    /\ IsClip /\ last.algorithm = "VALUE" /\ last.clip_val.num > 0 /\ WasAttached
    /\ last.result.type = "NotImplementedError"
    /\ last.after.tensors[last.before.self.lightning_module].grad > last.clip_val.num

\* C6 as stated: run_optimizer_step invokes xm.optimizer_step exactly once with
\* barrier = False, and optimizer_args holds the supplied closure under
\* 'closure' and every extra keyword argument at its supplied value.
C6_AsStated ==
    IsStep => /\ Len(last.xm_step) = 1
              /\ last.xm_step[1].barrier = FALSE
              /\ last.xm_step[1].optimizer_args["closure"] = last.lambda_closure
              /\ \A k \in DOMAIN last.kwargs :
                    last.xm_step[1].optimizer_args[k] = last.kwargs[k]

\* C6 (amended): with torch_xla available, run_optimizer_step invokes
\* xm.optimizer_step exactly once, on
\* the supplied optimizer with barrier = False; optimizer_args holds every
\* extra keyword argument at its supplied value and nothing else but
\* 'closure', which is the supplied closure unless the extra keyword arguments
\* have a 'closure' of their own, which then takes its place.
C6_StepsOnceNoBarrier ==
    (IsStep /\ _XLA_AVAILABLE)
           => /\ Len(last.xm_step) = 1
              /\ last.xm_step[1].optimizer = last.optimizer
              /\ last.xm_step[1].barrier = FALSE
              /\ DOMAIN last.xm_step[1].optimizer_args = {"closure"} \cup DOMAIN last.kwargs
              /\ \A k \in DOMAIN last.kwargs :
                    last.xm_step[1].optimizer_args[k] = last.kwargs[k]
              /\ "closure" \notin DOMAIN last.kwargs
                    => last.xm_step[1].optimizer_args["closure"] = last.lambda_closure

C6_Witness ==
    /\ IsStep /\ DOMAIN last.kwargs = {"on_tpu"}
    /\ Len(last.xm_step) = 1
    /\ last.xm_step[1].optimizer_args["closure"] = "closure_2"
    /\ last.result = Return

\* C7: setup calls the base accelerator's setup exactly once, with its own
\* arguments, when both checks pass, and not at all when it raises a
\* MisconfigurationException; a setup call ends in one or the other.
C7_BaseSetupOnceOrError ==
    IsSetup => /\ (~WasMixed /\ WasSupported)
                    => /\ last.base_setup = <<[trainer |-> last.trainer, model |-> last.model]>>
                       /\ last.result = Return
               /\ RaisedConfig => last.base_setup = <<>>
               /\ RaisedConfig \/ (last.result = Return /\ Len(last.base_setup) = 1)

C7_Witness ==
    /\ IsSetup /\ ~WasMixed /\ WasSupported
    /\ Len(last.base_setup) = 1
    /\ last.result = Return

\* C8: when the precision plugin is mixed precision and the training type
\* plugin is unsupported, setup raises the amp + tpu error, not the
\* unsupported-strategy error.
C8_PrecisionCheckedFirst ==
    (IsSetup /\ WasMixed /\ ~WasSupported)
        => /\ last.result = AmpError
           /\ last.result # StrategyError

C8_Witness ==
    /\ IsSetup /\ WasMixed /\ ~WasSupported
    /\ last.result.msg # StrategyError.msg
    /\ RaisedConfig

\* C9: when xm.optimizer_step or xla_clip_grad_norm_ raises, the call on the
\* adapter raises that same exception, the native primitive was invoked
\* exactly once, and the adapter's references are as before the call.
C9_NativeFailurePropagates ==
    /\ (IsStep /\ \E i \in DOMAIN last.xm_step : Raised(last.xm_step[i].outcome))
          => /\ Len(last.xm_step) = 1
             /\ last.result = last.xm_step[1].outcome
             /\ last.after.self = last.before.self
    /\ (IsClip /\ \E i \in DOMAIN last.xla_clip : Raised(last.xla_clip[i].outcome))
          => /\ Len(last.xla_clip) = 1
             /\ last.result = last.xla_clip[1].outcome
             /\ last.after.self = last.before.self

C9_Witness ==
    /\ IsStep /\ Len(last.xm_step) = 1
    /\ last.xm_step[1].outcome \in NativeErrors
    /\ Raised(last.result)

\* C10: the parameters handed to xla_clip_grad_norm_ are those of the model
\* attached to the adapter when clip_gradients is called, whatever optimizer
\* is passed.
C10_ClipsAttachedModel ==
    (IsClip /\ Len(last.xla_clip) >= 1)
        => \A i \in DOMAIN last.xla_clip :
               last.xla_clip[i].parameters.module = last.before.self.lightning_module

C10_Witness ==
    /\ IsClip /\ Len(last.xla_clip) = 1 /\ ncalls >= 2
    /\ last.before.self.lightning_module = "model_b"
    /\ last.optimizer = "opt_a"
    /\ last.xla_clip[1].parameters.module = "model_b"
====
